---- MODULE Spec2Model ----
(***************************************************************************)
(* The concurrent object deployer of src/deploy_objects.py:                *)
(* SnowflakeDeployer.__init__, process_single_view, deploy_views_threaded, *)
(* write_deployment_report and main, with the ThreadPoolExecutor workers   *)
(* and the orchestrating (main) thread as interleaved processes.           *)
(*                                                                         *)
(* Text is modelled as sequences of tokens.  A file's text is a sequence   *)
(* of                                                                      *)
(*   <<"ws">>                      whitespace                              *)
(*   <<"create", kind, ns, name>>  the fragment CREATE kind "ns"."name"    *)
(*   <<"sql", id>>                 any other statement text                *)
(*   <<"cmt">>                     a comment (it may hold a ';')           *)
(*   <<"semi">>                    the statement delimiter ';'             *)
(* Names, paths and messages are sequences of strings; "SP" and "NL" are   *)
(* the space and the newline of a message.                                 *)
(***************************************************************************)
EXTENDS Naturals, Sequences, FiniteSets

\* Bounds of the model.
MaxFiles == 2
MaxWorkers == 2

----------------------------------------------------------------------------
\* The files the glob pattern may match: path, whether open/read as UTF-8
\* succeeds, and the text.

FileOrder ==
  << "f_ok", "f_mid", "f_dup", "f_nohdr", "f_bin", "f_hdronly", "f_blank" >>

FileIds == { FileOrder[i] : i \in 1..Len(FileOrder) }

FilePath(f) ==
  CASE f = "f_ok"      -> << "views", "/", "v_ok", ".sql" >>
    [] f = "f_mid"     -> << "views", "/", "v_mid", ".sql" >>
    [] f = "f_dup"     -> << "tables", "/", "t_dup", ".sql" >>
    [] f = "f_nohdr"   -> << "views", "/", "v_nohdr", ".sql" >>
    [] f = "f_bin"     -> << "views", "/", "v_bin", ".sql" >>
    [] f = "f_hdronly" -> << "views", "/", "v_hdronly", ".sql" >>
    [] f = "f_blank"   -> << "views", "/", "already", "SP", "exists", ".sql" >>

FileReadable(f) == f # "f_bin"

FileText(f) ==
  CASE f = "f_ok" ->
         << <<"create", "VIEW", <<"S1">>, <<"V_OK">> >>, <<"ws">>, <<"sql", "SEL">>,
            <<"cmt">>, <<"semi">>, <<"ws">>, <<"sql", "GRANT">>, <<"semi">> >>
    [] f = "f_mid" ->
         << <<"create", "force view", <<"S1">>, <<"V_MID">> >>, <<"sql", "SEL">>,
            <<"semi">>, <<"sql", "BAD">>, <<"semi">>, <<"sql", "GRANT">>, <<"semi">> >>
    [] f = "f_dup" ->
         << <<"create", "table", <<"S2">>, <<"T_DUP">> >>, <<"sql", "DUP">>,
            <<"semi">>, <<"ws">>, <<"sql", "GRANT">>, <<"semi">> >>
    [] f = "f_nohdr" ->
         << <<"ws">>, <<"create", "VIEW", <<"S1">>, <<"V_NOHDR">> >>,
            <<"sql", "SEL">>, <<"semi">> >>
    [] f = "f_bin" -> << >>
    [] f = "f_hdronly" ->
         << <<"create", "VIEW", <<"S1">>, <<"V_HDRONLY">> >>, <<"ws">> >>
    [] f = "f_blank" -> << <<"ws">> >>

----------------------------------------------------------------------------
\* Values.

None == << "None" >>
NoFile == "-"
NoReport == [ written |-> FALSE, rows |-> << >> ]
MainThread == << "MainThread" >>
ThreadName(w) == << "ViewWorker", w >>

\* str(e) of the exceptions that occur.
MsgDecode == << "codec", "SP", "can't", "SP", "decode", "SP", "byte" >>
MsgInvalid(path) ==
  << "Invalid", "SP", "SQL", "SP", "statement", "SP", "in", "SP" >> \o path
    \o << ".", "SP", "Expected", "SP", "CREATE", "SP", "VIEW/SCHEMA/TABLE" >>
MsgExists == << "Object", "SP", "T_DUP", "SP", "ALREADY", "SP", "EXISTS", "." >>
MsgSyntax == << "syntax", "NL", "error" >>
MsgUnbound(var) == << "local", "SP", "variable", "SP", var, "SP", "unbound" >>

----------------------------------------------------------------------------
\* process_single_view: the pure parts.

\* str.lower() and str.upper() on the words that occur.
LowerWord(t) ==
  CASE t = "ALREADY" -> "already"
    [] t = "EXISTS"  -> "exists"
    [] t = "Object"  -> "object"
    [] t = "T_DUP"   -> "t_dup"
    [] t = "Invalid" -> "invalid"
    [] t = "SQL"     -> "sql"
    [] t = "Expected" -> "expected"
    [] t = "CREATE"  -> "create"
    [] t = "VIEW/SCHEMA/TABLE" -> "view/schema/table"
    [] OTHER -> t

UpperWord(t) ==
  CASE t = "view"       -> "VIEW"
    [] t = "schema"     -> "SCHEMA"
    [] t = "force view" -> "FORCE VIEW"
    [] t = "table"      -> "TABLE"
    [] t = "procedure"  -> "PROCEDURE"
    [] OTHER -> t

Lower(msg) == [ i \in 1..Len(msg) |-> LowerWord(msg[i]) ]

\* str(e).replace("\n", " ")
ReplaceNl(msg) == [ i \in 1..Len(msg) |-> IF msg[i] = "NL" THEN "SP" ELSE msg[i] ]

\* Mutant: the substring test without .lower().
ContainsAlreadyExistsCaseSensitive(msg) ==
  \E i \in 1..Len(msg) :
    /\ i + 2 <= Len(msg)
    /\ msg[i] = "already"
    /\ msg[i + 1] = "SP"
    /\ msg[i + 2] = "exists"

\* "already exists" in error_msg.lower()
ContainsAlreadyExists(msg) ==
  \E i \in 1..Len(msg) :
    /\ i + 2 <= Len(msg)
    /\ Lower(msg)[i] = "already"
    /\ Lower(msg)[i + 1] = "SP"
    /\ Lower(msg)[i + 2] = "exists"

\* os.path.basename(item_path)
RECURSIVE Basename(_)
Basename(path) ==
  IF \E i \in 1..Len(path) : path[i] = "/"
  THEN Basename(Tail(path))
  ELSE path

\* os.path.basename(item_path).replace(".sql", "")
ItemName(path) == SelectSeq(Basename(path), LAMBDA t : t # ".sql")

AllowedKinds == { "VIEW", "SCHEMA", "FORCE VIEW", "TABLE" }

\* re.match(r'CREATE\s+(VIEW|SCHEMA|FORCE VIEW|TABLE)\s+"([^"]+)"\."([^"]+)"',
\*          sql, re.IGNORECASE): anchored at the first character of the text.
HeaderMatch(text) ==
  /\ Len(text) >= 1
  /\ text[1][1] = "create"
  /\ UpperWord(text[1][2]) \in AllowedKinds
  /\ text[1][3] # << >>
  /\ text[1][4] # << >>

\* str.strip()
RECURSIVE LStrip(_)
LStrip(text) ==
  IF text # << >> /\ Head(text) = <<"ws">> THEN LStrip(Tail(text)) ELSE text

RECURSIVE RStrip(_)
RStrip(text) ==
  IF text # << >> /\ text[Len(text)] = <<"ws">>
  THEN RStrip(SubSeq(text, 1, Len(text) - 1))
  ELSE text

Strip(text) == RStrip(LStrip(text))

\* split_statements(io.StringIO(sql), remove_comments=True): the statements in
\* text order, each ending at its delimiter, comments removed, stripped; a
\* fragment with nothing but whitespace is no statement.
RECURSIVE SplitFrom(_, _)
SplitFrom(text, cur) ==
  IF text = << >>
  THEN IF Strip(cur) = << >> THEN << >> ELSE << Strip(cur) >>
  ELSE IF Head(text) = <<"semi">>
       THEN << Strip(Append(cur, <<"semi">>)) >> \o SplitFrom(Tail(text), << >>)
       ELSE IF Head(text) = <<"cmt">>
            THEN SplitFrom(Tail(text), cur)
            ELSE SplitFrom(Tail(text), Append(cur, Head(text)))

SplitStatements(text) == SplitFrom(text, << >>)

\* self.session.sql(sqlitem).collect() against the backend of the run: what
\* the call does, "ok" or the message of the exception it raises.
HasSql(stmt, id) == \E i \in 1..Len(stmt) : stmt[i] = <<"sql", id>>

BackendOutcome(stmt) ==
  IF HasSql(stmt, "BAD") THEN MsgSyntax
  ELSE IF HasSql(stmt, "DUP") THEN MsgExists
  ELSE IF ~ \E i \in 1..Len(stmt) : stmt[i][1] = "sql" THEN MsgSyntax
  ELSE << "ok" >>

\* table_info as built at lines 61-68.
NewTableInfo(item_schema, item_name, path, thread) ==
  [ schema |-> item_schema, view_name |-> item_name, status |-> "ok",
    exception |-> None, file_path |-> path, thread_id |-> thread ]

\* A table_info that is not bound (the name is not assigned yet).
NoTableInfo == NewTableInfo(<< >>, << >>, << >>, << >>)

\* The entry appended to failed_sql.
FailedSql(ti, last_sql, error_msg, thread) ==
  [ schema |-> ti.schema, view_name |-> ti.view_name, sql |-> last_sql,
    error |-> error_msg, file_path |-> ti.file_path, thread_id |-> thread ]

\* Mutant: the statement is recorded in failed_sql in both branches.
ExceptHandlerRecordingAlready(bound, e, ti, last_sql, thread, fsql) ==
  LET error_msg == ReplaceNl(e)
      status    == IF ContainsAlreadyExists(error_msg) THEN "already" ELSE "error"
  IN
  IF ~bound
  THEN [ raised |-> TRUE,
         exc |-> MsgUnbound(IF status = "already" THEN "table_info" ELSE "item_schema"),
         info |-> ti, failed |-> fsql ]
  ELSE [ raised |-> FALSE, exc |-> None,
         info |-> [ ti EXCEPT !.status = status, !.exception = error_msg ],
         failed |-> IF last_sql # << >>
                    THEN Append(fsql, FailedSql(ti, last_sql, error_msg, thread))
                    ELSE fsql ]

\* Mutant: the "already" branch sets the status and leaves the detail unset.
ExceptHandlerAlreadyWithoutDetail(bound, e, ti, last_sql, thread, fsql) ==
  LET error_msg == ReplaceNl(e) IN
  IF ContainsAlreadyExists(error_msg)
  THEN IF ~bound
       THEN [ raised |-> TRUE, exc |-> MsgUnbound("table_info"), info |-> ti,
              failed |-> fsql ]
       ELSE [ raised |-> FALSE, exc |-> None,
              info |-> [ ti EXCEPT !.status = "already" ],
              failed |-> fsql ]
  ELSE IF ~bound
       THEN [ raised |-> TRUE, exc |-> MsgUnbound("item_schema"), info |-> ti,
              failed |-> fsql ]
       ELSE [ raised |-> FALSE, exc |-> None,
              info |-> [ ti EXCEPT !.status = "error", !.exception = error_msg ],
              failed |-> IF last_sql # << >>
                         THEN Append(fsql, FailedSql(ti, last_sql, error_msg, thread))
                         ELSE fsql ]

\* The except block of process_single_view, entered with exception message e.
\* bound: whether table_info and item_schema are assigned.  The result says
\* whether an exception leaves the function (raised, with its message exc),
\* and gives table_info and failed_sql after the block.
ExceptHandler(bound, e, ti, last_sql, thread, fsql) ==
  LET error_msg == ReplaceNl(e) IN
  IF ContainsAlreadyExists(error_msg)
  THEN IF ~bound
       THEN [ raised |-> TRUE, exc |-> MsgUnbound("table_info"), info |-> ti,
              failed |-> fsql ]
       ELSE [ raised |-> FALSE, exc |-> None,
              info |-> [ ti EXCEPT !.status = "already", !.exception = error_msg ],
              failed |-> fsql ]
  ELSE IF ~bound
       THEN [ raised |-> TRUE, exc |-> MsgUnbound("item_schema"), info |-> ti,
              failed |-> fsql ]
       ELSE [ raised |-> FALSE, exc |-> None,
              info |-> [ ti EXCEPT !.status = "error", !.exception = error_msg ],
              failed |-> IF last_sql # << >>
                         THEN Append(fsql, FailedSql(ti, last_sql, error_msg, thread))
                         ELSE fsql ]

\* progress.add_task on a fresh Progress returns the first TaskID.
FirstTaskId == 0

\* The finally block: `if progress and task_id: progress.update(advance=1)`.
ProgressUpdate(count, has_progress, task_id) ==
  IF has_progress /\ task_id # 0 THEN count + 1 ELSE count

\* Mutant: the synthesized entry keeps the name with its extension.
SynthResultKeepingExtension(path, exc) ==
  [ schema |-> << "unknown" >>, view_name |-> Basename(path), status |-> "error",
    exception |-> exc, file_path |-> path, thread_id |-> MainThread ]

\* deploy_views_threaded: the entry appended when future.result() raises.
SynthResult(path, exc) ==
  [ schema |-> << "unknown" >>, view_name |-> ItemName(path), status |-> "error",
    exception |-> exc, file_path |-> path, thread_id |-> MainThread ]

\* Mutant: every result that is not "ok" counts as an error.
ExitCodeCountingNotOk(results) ==
  IF \E i \in 1..Len(results) : results[i].status # "ok" THEN 1 ELSE 0

\* main: the exit code from the results.
ErrorCount(results) ==
  Cardinality({ i \in 1..Len(results) : results[i].status = "error" })

ExitCode(results) == IF ErrorCount(results) > 0 THEN 1 ELSE 0

\* process_single_view from its first line to the first blocking backend call
\* or to its end.  kind is "call" (a statement is issued and in flight),
\* "return" (table_info is returned) or "raise" (an exception leaves it).
Blocked(ti, stmts) ==
  [ kind |-> "call", info |-> ti, sqlitem |-> Head(stmts),
    last_sql |-> Strip(Head(stmts)), rest |-> Tail(stmts), exc |-> None ]

Finished(h) ==
  [ kind |-> IF h.raised THEN "raise" ELSE "return", info |-> h.info,
    sqlitem |-> << >>, last_sql |-> << >>, rest |-> << >>, exc |-> h.exc ]

ReturnInfo(ti) ==
  Finished([ raised |-> FALSE, exc |-> None, info |-> ti ])

\* The for loop over the statements, entered with the statements left.
RunStatements(ti, stmts) ==
  IF stmts = << >> THEN ReturnInfo(ti) ELSE Blocked(ti, stmts)

ProcessStart(f, thread, fsql) ==
  LET path == FilePath(f)
      sql  == FileText(f)
  IN
  IF ~FileReadable(f)
  THEN Finished(ExceptHandler(FALSE, MsgDecode, NoTableInfo, << >>, thread, fsql))
  ELSE IF ~HeaderMatch(sql)
  THEN Finished(ExceptHandler(FALSE, MsgInvalid(path), NoTableInfo, << >>, thread, fsql))
  ELSE LET ti == NewTableInfo(sql[1][3], sql[1][4], path, thread) IN
       IF Strip(sql) = << >>
       THEN ReturnInfo([ ti EXCEPT !.status = "empty" ])
       ELSE RunStatements(ti, SplitStatements(sql))

\* failed_sql after process_single_view has started on f.
ProcessStartFailed(f, thread, fsql) ==
  IF ~FileReadable(f)
  THEN ExceptHandler(FALSE, MsgDecode, NoTableInfo, << >>, thread, fsql).failed
  ELSE IF ~HeaderMatch(FileText(f))
  THEN ExceptHandler(FALSE, MsgInvalid(FilePath(f)), NoTableInfo, << >>, thread, fsql).failed
  ELSE fsql

\* Mutant: a failed statement does not end the loop while statements are left.
AfterStatementIgnoringErrors(ti, last_sql, rest, outcome, thread, fsql) ==
  IF outcome = << "ok" >> \/ rest # << >>
  THEN RunStatements(ti, rest)
  ELSE Finished(ExceptHandler(TRUE, outcome, ti, last_sql, thread, fsql))

\* The statement in flight comes back with `outcome`: the loop goes on with the
\* next statement, or the except block runs.
AfterStatement(ti, last_sql, rest, outcome, thread, fsql) ==
  IF outcome = << "ok" >>
  THEN RunStatements(ti, rest)
  ELSE Finished(ExceptHandler(TRUE, outcome, ti, last_sql, thread, fsql))

AfterStatementFailed(ti, last_sql, outcome, thread, fsql) ==
  IF outcome = << "ok" >>
  THEN fsql
  ELSE ExceptHandler(TRUE, outcome, ti, last_sql, thread, fsql).failed

\* Mutant: an exception ends the worker's item without finishing the future.
SetFutureLosingException(r) ==
  IF r.kind = "raise"
  THEN [ state |-> "running", result |-> NoTableInfo, exception |-> None ]
  ELSE [ state |-> "finished", result |-> r.info, exception |-> None ]

\* _WorkItem.run: the future gets the result or the exception of the call.
SetFuture(r) ==
  IF r.kind = "raise"
  THEN [ state |-> "finished", result |-> NoTableInfo, exception |-> r.exc ]
  ELSE [ state |-> "finished", result |-> r.info, exception |-> None ]

NoFuture == [ state |-> "none", result |-> NoTableInfo, exception |-> None ]

\* Mutant: the append is an unsynchronized read-modify-write that starts from
\* an empty list (a lost update).
CollectResultLostUpdate(info, f, fut) ==
  IF fut.exception = None
  THEN << fut.result >>
  ELSE << SynthResult(FilePath(f), fut.exception) >>

\* Mutant: nothing is appended for a future that raised.
CollectResultDropping(info, f, fut) ==
  IF fut.exception = None THEN Append(info, fut.result) ELSE info

\* The body of the as_completed loop: what deploy_info is after one future
\* has been collected.
CollectResult(info, f, fut) ==
  IF fut.exception = None
  THEN Append(info, fut.result)
  ELSE Append(info, SynthResult(FilePath(f), fut.exception))

----------------------------------------------------------------------------
\* The state.

VARIABLES
  pc,             \* where the main thread is
  session,        \* the backend session: "none", "created", "selected"
  views,          \* glob.glob(pattern): the files found, in glob's order
  max_workers,    \* --threads
  use_db_calls,   \* how many times USE DATABASE was issued
  submitted,      \* how many of views have been submitted to the executor
  work_queue,     \* the executor's queue of work items (files)
  num_threads,    \* the executor's threads, ViewWorker_0 .. ViewWorker_(n-1)
  idle_semaphore, \* the executor's count of workers that announced idle
  worker,         \* each worker thread: pc, file, table_info, last_sql, rest
  future,         \* each file's future
  executed,       \* per file, the statements session.sql(..).collect() got
  deploy_info,    \* self.deploy_info
  failed_sql,     \* self.failed_sql
  deploy_lock,    \* self.deploy_lock: its holder, or None
  collecting,     \* the file whose future the as_completed loop is at
  collected,      \* the futures as_completed has yielded
  progress_count, \* how far the progress bar has advanced
  report,         \* the CSV artifact: whether it was written, and its rows
  report_writes,  \* how many times write_deployment_report ran
  warned,         \* whether the "No view files found" line was printed
  exit_code       \* << >> while main runs, then << its return value >>

vars ==
  << pc, session, views, max_workers, use_db_calls, submitted, work_queue, num_threads,
     idle_semaphore, worker, future, executed, deploy_info, failed_sql,
     deploy_lock, collecting, collected, progress_count, report, report_writes,
     warned, exit_code >>

Workers == 0 .. (MaxWorkers - 1)

IdleWorker(p) ==
  [ pc |-> p, file |-> NoFile, info |-> NoTableInfo, last_sql |-> << >>,
    rest |-> << >> ]

\* The sequence of the files of S in glob's order.
InOrder(S) == SelectSeq(FileOrder, LAMBDA f : f \in S)

Range(seq) == { seq[i] : i \in 1..Len(seq) }

Init ==
  /\ pc = "start"
  /\ session = "none"
  /\ views = << >>
  /\ max_workers \in 0..MaxWorkers
  /\ use_db_calls = 0
  /\ submitted = 0
  /\ work_queue = << >>
  /\ num_threads = 0
  /\ idle_semaphore = 0
  /\ worker = [ w \in Workers |-> IdleWorker("unborn") ]
  /\ future = [ f \in FileIds |-> NoFuture ]
  /\ executed = [ f \in FileIds |-> << >> ]
  /\ deploy_info = << >>
  /\ failed_sql = << >>
  /\ deploy_lock = None
  /\ collecting = NoFile
  /\ collected = { }
  /\ progress_count = 0
  /\ report = NoReport
  /\ report_writes = 0
  /\ warned = FALSE
  /\ exit_code = << >>

----------------------------------------------------------------------------
\* main and SnowflakeDeployer.__init__ (the main thread).

mainVars == << pc, use_db_calls, submitted, deploy_lock, collecting, collected,
               report, report_writes, warned, exit_code >>
poolVars == << work_queue, num_threads, idle_semaphore, worker, future, executed,
               failed_sql, progress_count >>

\* except Exception in main: "Fatal error", return 1.
Fatal ==
  /\ pc' = "fatal"
  /\ exit_code' = << 1 >>

\* Session.builder.config(..).getOrCreate()
CreateSession(ok) ==
  /\ pc = "start"
  /\ IF ok
     THEN pc' = "usedb" /\ session' = "created" /\ exit_code' = exit_code
     ELSE Fatal /\ session' = session
  /\ UNCHANGED << views, max_workers, use_db_calls, submitted, deploy_info,
                  deploy_lock, collecting, collected, report, report_writes,
                  warned >>
  /\ UNCHANGED poolVars

\* Mutant: the outcome of USE DATABASE is not looked at.
UseDatabaseUnchecked(ok) ==
  /\ pc = "usedb"
  /\ use_db_calls' = use_db_calls + 1
  /\ pc' = "glob"
  /\ session' = IF ok THEN "selected" ELSE session
  /\ UNCHANGED << views, max_workers, submitted, deploy_info, deploy_lock,
                  collecting, collected, report, report_writes, warned, exit_code >>
  /\ UNCHANGED poolVars

\* self.session.sql(f"USE DATABASE {database}").show()
UseDatabase(ok) ==
  /\ pc = "usedb"
  /\ use_db_calls' = use_db_calls + 1
  /\ IF ok
     THEN pc' = "glob" /\ session' = "selected" /\ exit_code' = exit_code
     ELSE Fatal /\ session' = session
  /\ UNCHANGED << views, max_workers, submitted, deploy_info, deploy_lock,
                  collecting, collected, report, report_writes, warned >>
  /\ UNCHANGED poolVars

\* glob.glob(pattern) and the `if not views` return.
Glob ==
  /\ pc = "glob"
  /\ \E S \in SUBSET FileIds :
       /\ Cardinality(S) <= MaxFiles
       /\ views' = InOrder(S)
  /\ IF views' = << >>
     THEN pc' = "summary" /\ warned' = TRUE
     ELSE pc' = "pool" /\ warned' = warned
  /\ UNCHANGED << session, max_workers, use_db_calls, submitted, deploy_info,
                  deploy_lock, collecting, collected, report, report_writes,
                  exit_code >>
  /\ UNCHANGED poolVars

\* Progress(), add_task and ThreadPoolExecutor(max_workers=..), which raises
\* ValueError when max_workers <= 0.
PoolCreate ==
  /\ pc = "pool"
  /\ IF max_workers <= 0
     THEN Fatal
     ELSE pc' = "submit" /\ exit_code' = exit_code
  /\ UNCHANGED << session, views, max_workers, use_db_calls, submitted, deploy_info,
                  deploy_lock, collecting, collected, report, report_writes,
                  warned >>
  /\ UNCHANGED poolVars

\* Mutant: a thread is started for every work item no idle worker waits for.
SubmitSpawningAlways ==
  /\ pc = "submit"
  /\ submitted < Len(views)
  /\ LET f == views[submitted + 1] IN
     /\ work_queue' = Append(work_queue, f)
     /\ future' = [ future EXCEPT ![f] = [ NoFuture EXCEPT !.state = "pending" ] ]
     /\ IF idle_semaphore > 0
        THEN /\ idle_semaphore' = idle_semaphore - 1
             /\ UNCHANGED << num_threads, worker >>
        ELSE IF num_threads < MaxWorkers
        THEN /\ worker' = [ worker EXCEPT ![num_threads] = IdleWorker("poll") ]
             /\ num_threads' = num_threads + 1
             /\ UNCHANGED idle_semaphore
        ELSE UNCHANGED << num_threads, worker, idle_semaphore >>
  /\ submitted' = submitted + 1
  /\ pc' = IF submitted + 1 = Len(views) THEN "collect" ELSE "submit"
  /\ UNCHANGED << session, views, max_workers, use_db_calls, executed, deploy_info,
                  failed_sql, deploy_lock, collecting, collected, progress_count,
                  report, report_writes, warned, exit_code >>

\* executor.submit(self.process_single_view, view, progress, task) for the next
\* view: the work item is queued; a thread is started unless a worker has
\* announced idle or the pool is at max_workers.
Submit ==
  /\ pc = "submit"
  /\ submitted < Len(views)
  /\ LET f == views[submitted + 1] IN
     /\ work_queue' = Append(work_queue, f)
     /\ future' = [ future EXCEPT ![f] = [ NoFuture EXCEPT !.state = "pending" ] ]
     /\ IF idle_semaphore > 0
        THEN /\ idle_semaphore' = idle_semaphore - 1
             /\ UNCHANGED << num_threads, worker >>
        ELSE IF num_threads < max_workers
        THEN /\ worker' = [ worker EXCEPT ![num_threads] = IdleWorker("poll") ]
             /\ num_threads' = num_threads + 1
             /\ UNCHANGED idle_semaphore
        ELSE UNCHANGED << num_threads, worker, idle_semaphore >>
  /\ submitted' = submitted + 1
  /\ pc' = IF submitted + 1 = Len(views) THEN "collect" ELSE "submit"
  /\ UNCHANGED << session, views, max_workers, use_db_calls, executed, deploy_info,
                  failed_sql, deploy_lock, collecting, collected, progress_count,
                  report, report_writes, warned, exit_code >>

\* Mutant: the loop goes on to the append without entering the with block.
CollectAcquireWithoutLock(f) ==
  /\ pc = "collect"
  /\ collecting = NoFile
  /\ f \in Range(views) \ collected
  /\ future[f].state = "finished"
  /\ collecting' = f
  /\ UNCHANGED << pc, session, views, max_workers, use_db_calls, submitted, deploy_info,
                  deploy_lock, collected, report, report_writes, warned, exit_code >>
  /\ UNCHANGED poolVars

\* as_completed yields a finished future; future.result() returns or raises;
\* `with self.deploy_lock:` is entered.
CollectAcquire(f) ==
  /\ pc = "collect"
  /\ collecting = NoFile
  /\ f \in Range(views) \ collected
  /\ future[f].state = "finished"
  /\ deploy_lock = None
  /\ deploy_lock' = MainThread
  /\ collecting' = f
  /\ UNCHANGED << pc, session, views, max_workers, use_db_calls, submitted, deploy_info,
                  collected, report, report_writes, warned, exit_code >>
  /\ UNCHANGED poolVars

\* Mutant: the loop is left after the first future it has collected.
CollectAppendLeavingLoop ==
  /\ pc = "collect"
  /\ collecting # NoFile
  /\ deploy_info' = CollectResult(deploy_info, collecting, future[collecting])
  /\ deploy_lock' = None
  /\ collected' = collected \cup { collecting }
  /\ collecting' = NoFile
  /\ pc' = "shutdown"
  /\ UNCHANGED << session, views, max_workers, use_db_calls, submitted, report,
                  report_writes, warned, exit_code >>
  /\ UNCHANGED poolVars

\* self.deploy_info.append(..) and the end of the with block; after the last
\* future the executor and the progress bar are closed.
CollectAppend ==
  /\ pc = "collect"
  /\ collecting # NoFile
  /\ deploy_info' = CollectResult(deploy_info, collecting, future[collecting])
  /\ deploy_lock' = None
  /\ collected' = collected \cup { collecting }
  /\ collecting' = NoFile
  /\ pc' = IF collected' = Range(views) THEN "shutdown" ELSE "collect"
  /\ UNCHANGED << session, views, max_workers, use_db_calls, submitted, report,
                  report_writes, warned, exit_code >>
  /\ UNCHANGED poolVars

\* The end of `with ThreadPoolExecutor(..)`: shutdown(wait=True) joins the
\* worker threads, which have nothing left to run.
PoolShutdown ==
  /\ pc = "shutdown"
  /\ \A w \in Workers : worker[w].pc \in { "unborn", "poll", "wait" }
  /\ worker' = [ w \in Workers |->
                   IF worker[w].pc = "unborn" THEN worker[w] ELSE IdleWorker("exit") ]
  /\ pc' = "write"
  /\ UNCHANGED << session, views, max_workers, use_db_calls, submitted, work_queue,
                  num_threads, idle_semaphore, future, executed, deploy_info,
                  failed_sql, deploy_lock, collecting, collected, progress_count,
                  report, report_writes, warned, exit_code >>

\* Mutant: an exception of the write is not caught and reaches main.
WriteReportPropagating(ok) ==
  /\ pc = "write"
  /\ report_writes' = report_writes + 1
  /\ IF ok
     THEN /\ report' = [ written |-> TRUE, rows |-> deploy_info ]
          /\ pc' = "summary"
          /\ exit_code' = exit_code
     ELSE Fatal /\ report' = report
  /\ UNCHANGED << session, views, max_workers, use_db_calls, submitted, deploy_info,
                  deploy_lock, collecting, collected, warned >>
  /\ UNCHANGED poolVars

\* write_deployment_report: the rows are written, or the write raises and the
\* error is printed.
WriteReport(ok) ==
  /\ pc = "write"
  /\ report_writes' = report_writes + 1
  /\ report' = IF ok THEN [ written |-> TRUE, rows |-> deploy_info ] ELSE report
  /\ pc' = "summary"
  /\ UNCHANGED << session, views, max_workers, use_db_calls, submitted, deploy_info,
                  deploy_lock, collecting, collected, warned, exit_code >>
  /\ UNCHANGED poolVars

\* deploy_views_threaded's return value: [] when no file was found, else
\* self.deploy_info.
Results == IF views = << >> THEN << >> ELSE deploy_info

\* print_summary and the exit code.
Summary ==
  /\ pc = "summary"
  /\ exit_code' = << ExitCode(Results) >>
  /\ pc' = "done"
  /\ UNCHANGED << session, views, max_workers, use_db_calls, submitted, deploy_info,
                  deploy_lock, collecting, collected, report, report_writes,
                  warned >>
  /\ UNCHANGED poolVars

----------------------------------------------------------------------------
\* The worker threads of the executor.

\* Mutant: process_single_view appends its table_info to self.deploy_info
\* itself before it returns it.
ProceedAppendingResult(w, f, r, fsql) ==
  IF r.kind = "call"
  THEN /\ worker' = [ worker EXCEPT ![w] =
                        [ pc |-> "call", file |-> f, info |-> r.info,
                          last_sql |-> r.last_sql, rest |-> r.rest ] ]
       /\ executed' = [ executed EXCEPT ![f] = Append(@, r.sqlitem) ]
       /\ future' = [ future EXCEPT ![f].state = "running" ]
       /\ UNCHANGED << failed_sql, progress_count, deploy_info >>
  ELSE /\ worker' = [ worker EXCEPT ![w] = IdleWorker("poll") ]
       /\ future' = [ future EXCEPT ![f] = SetFuture(r) ]
       /\ failed_sql' = fsql
       /\ progress_count' = ProgressUpdate(progress_count, TRUE, FirstTaskId)
       /\ deploy_info' = IF r.kind = "return"
                         THEN Append(deploy_info, r.info)
                         ELSE deploy_info
       /\ UNCHANGED executed

\* What a worker does with the outcome r of a stretch of process_single_view
\* on file f: of the deployer's fields it writes failed_sql, and it leaves
\* deploy_info alone.
Proceed(w, f, r, fsql) ==
  IF r.kind = "call"
  THEN /\ worker' = [ worker EXCEPT ![w] =
                        [ pc |-> "call", file |-> f, info |-> r.info,
                          last_sql |-> r.last_sql, rest |-> r.rest ] ]
       /\ executed' = [ executed EXCEPT ![f] = Append(@, r.sqlitem) ]
       /\ future' = [ future EXCEPT ![f].state = "running" ]
       /\ UNCHANGED << failed_sql, progress_count, deploy_info >>
  ELSE /\ worker' = [ worker EXCEPT ![w] = IdleWorker("poll") ]
       /\ future' = [ future EXCEPT ![f] = SetFuture(r) ]
       /\ failed_sql' = fsql
       /\ progress_count' = ProgressUpdate(progress_count, TRUE, FirstTaskId)
       /\ UNCHANGED << executed, deploy_info >>

\* The worker takes the next work item and runs process_single_view up to its
\* first backend call.
WorkerTake(w) ==
  /\ worker[w].pc \in { "poll", "wait" }
  /\ work_queue # << >>
  /\ LET f == Head(work_queue) IN
     /\ work_queue' = Tail(work_queue)
     /\ Proceed(w, f, ProcessStart(f, ThreadName(w), failed_sql),
                ProcessStartFailed(f, ThreadName(w), failed_sql))
  /\ UNCHANGED << num_threads, idle_semaphore >>
  /\ UNCHANGED << session, views, max_workers >>
  /\ UNCHANGED mainVars

\* The worker finds the queue empty: it announces itself idle and waits.
WorkerIdle(w) ==
  /\ worker[w].pc = "poll"
  /\ work_queue = << >>
  /\ idle_semaphore' = idle_semaphore + 1
  /\ worker' = [ worker EXCEPT ![w].pc = "wait" ]
  /\ UNCHANGED << work_queue, num_threads, future, executed, failed_sql,
                  progress_count, deploy_info >>
  /\ UNCHANGED << session, views, max_workers >>
  /\ UNCHANGED mainVars

\* The backend call in flight returns or raises, and process_single_view goes
\* on to its next backend call or to its end.
StatementDone(w) ==
  /\ worker[w].pc = "call"
  /\ LET me      == worker[w]
         outcome == BackendOutcome(executed[me.file][Len(executed[me.file])])
     IN Proceed(w, me.file,
                AfterStatement(me.info, me.last_sql, me.rest, outcome,
                               ThreadName(w), failed_sql),
                AfterStatementFailed(me.info, me.last_sql, outcome,
                                     ThreadName(w), failed_sql))
  /\ UNCHANGED << work_queue, num_threads, idle_semaphore >>
  /\ UNCHANGED << session, views, max_workers >>
  /\ UNCHANGED mainVars

----------------------------------------------------------------------------

Next ==
  \/ \E ok \in BOOLEAN : CreateSession(ok)
  \/ \E ok \in BOOLEAN : UseDatabase(ok)
  \/ Glob
  \/ PoolCreate
  \/ Submit
  \/ \E f \in FileIds : CollectAcquire(f)
  \/ CollectAppend
  \/ PoolShutdown
  \/ \E ok \in BOOLEAN : WriteReport(ok)
  \/ Summary
  \/ \E w \in Workers : WorkerTake(w)
  \/ \E w \in Workers : WorkerIdle(w)
  \/ \E w \in Workers : StatementDone(w)

Spec == Init /\ [][Next]_vars

\* The run does not stop while some thread can take a step: the scheduler
\* runs a thread that is ready, and a backend call in flight comes back.
FairSpec == Spec /\ WF_vars(Next)

----------------------------------------------------------------------------
\* Definitions the properties below are stated with.

\* deploy_views_threaded has returned to main.
Returned == pc \in { "summary", "done" }

\* The entries of deploy_info for file f.
EntriesOf(f) ==
  { i \in 1..Len(deploy_info) : deploy_info[i].file_path = FilePath(f) }

IsPrefix(a, b) == Len(a) <= Len(b) /\ a = SubSeq(b, 1, Len(a))

\* The statements of f in file order (none when f has no readable text that
\* starts with the header).
StatementsOf(f) ==
  IF FileReadable(f) /\ HeaderMatch(FileText(f))
  THEN SplitStatements(FileText(f))
  ELSE << >>

Raises(stmt) == BackendOutcome(stmt) # << "ok" >>

\* The position of the first statement of stmts that raises, Len(stmts) if
\* none does.
FirstFailure(stmts) ==
  IF \E i \in 1..Len(stmts) : Raises(stmts[i])
  THEN CHOOSE i \in 1..Len(stmts) :
         Raises(stmts[i]) /\ \A j \in 1..(i - 1) : ~Raises(stmts[j])
  ELSE Len(stmts)

InFlight(f) == { w \in Workers : worker[w].pc = "call" /\ worker[w].file = f }

\* The name of the file without directory and extension.
FileStem(path) == SubSeq(Basename(path), 1, Len(Basename(path)) - 1)

\* The message holds "already exists" in some letter case.
SaysAlreadyExists(msg) ==
  \E i \in 1..Len(msg) :
    /\ i + 2 <= Len(msg)
    /\ msg[i] \in { "already", "Already", "ALREADY" }
    /\ msg[i + 1] = "SP"
    /\ msg[i + 2] \in { "exists", "Exists", "EXISTS" }

\* The text after the CREATE header is empty or whitespace.
BlankBody(f) ==
  /\ FileReadable(f)
  /\ HeaderMatch(FileText(f))
  /\ Strip(Tail(FileText(f))) = << >>

----------------------------------------------------------------------------
\* C1: when deploy_views_threaded has returned, deploy_info holds exactly one
\* entry per discovered file: as many entries as files, and every file path
\* once, whatever the pool size, the interleaving and the outcome of each file.
C1_OneResultPerFile ==
  Returned =>
    /\ Len(deploy_info) = Len(views)
    /\ \A f \in Range(views) : Cardinality(EntriesOf(f)) = 1

\* A run of two files has returned, one result synthesized for a unit of work
\* that raised and one returned by process_single_view with status ok.
C1_Witness ==
  /\ Returned
  /\ Len(views) = 2
  /\ \E i, j \in 1..Len(deploy_info) :
       /\ deploy_info[i].thread_id = MainThread
       /\ deploy_info[j].status = "ok"

\* C2: the statements the backend gets for a file are a prefix of the file's
\* statements in file order, each once; a statement is issued only when the one
\* before it has returned without raising, so that at most one statement of a
\* file is in flight; the prefix ends with the first statement that raises;
\* and a processed file got exactly that prefix, whatever happened to the
\* other files.
C2_PrefixInFileOrder ==
  \A f \in FileIds :
    /\ IsPrefix(executed[f], StatementsOf(f))
    /\ \A i \in 1..(Len(executed[f]) - 1) : ~Raises(executed[f][i])
    /\ Cardinality(InFlight(f)) <= 1
    /\ InFlight(f) # { } => future[f].state = "running"
    /\ future[f].state = "finished" =>
         /\ InFlight(f) = { }
         /\ executed[f] = SubSeq(StatementsOf(f), 1, FirstFailure(StatementsOf(f)))

\* Both files are done: f_mid stopped at its second statement, which raised,
\* and f_ok got both of its statements.
C2_Witness ==
  /\ pc = "done"
  /\ views = << "f_ok", "f_mid" >>
  /\ Len(executed["f_mid"]) = 2
  /\ Len(StatementsOf("f_mid")) = 3
  /\ Raises(executed["f_mid"][2])
  /\ Len(executed["f_ok"]) = 2

\* C3: a file whose text after the header is empty or whitespace gets status
\* "empty" and none of its statements is executed.
C3_BlankBodyIsEmpty ==
  \A f \in Range(views) :
    BlankBody(f) =>
      /\ executed[f] = << >>
      /\ \A i \in EntriesOf(f) : deploy_info[i].status = "empty"

C5_AlreadyExistsIsSoft ==
  /\ \A f \in Range(views) :
       LET stmts == StatementsOf(f)
           k     == FirstFailure(stmts)
       IN (/\ future[f].state = "finished"
           /\ stmts # << >>
           /\ Raises(stmts[k])
           /\ SaysAlreadyExists(BackendOutcome(stmts[k])))
          => /\ future[f].exception = None
             /\ future[f].result.status = "already"
             /\ future[f].result.exception = ReplaceNl(BackendOutcome(stmts[k]))
             /\ \A i \in 1..Len(failed_sql) : failed_sql[i].file_path # FilePath(f)
             /\ \A i \in EntriesOf(f) : deploy_info[i] = future[f].result
  /\ (/\ pc = "done"
      /\ \E i \in 1..Len(deploy_info) : deploy_info[i].status = "already"
      /\ \A i \in 1..Len(deploy_info) : deploy_info[i].status # "error")
     => exit_code = << 0 >>

\* f_dup, whose statement raises "... ALREADY EXISTS.", was run with f_ok and
\* main returned 0.
C5_Witness ==
  /\ pc = "done"
  /\ views = << "f_ok", "f_dup" >>
  /\ \E i \in EntriesOf("f_dup") : deploy_info[i].status = "already"
  /\ exit_code = << 0 >>

\* C6 as stated: in every run of main the exit code is 1 exactly when some
\* result has status "error".
C6_ExitCodeIffError ==
  pc \in { "done", "fatal" } =>
    (exit_code = << 1 >> <=> \E i \in 1..Len(deploy_info) : deploy_info[i].status = "error")

\* C6, amended: in a run in which deploy_views_threaded returns, the exit code
\* is 1 exactly when some result has status "error", and 0 otherwise; a run
\* that ends in main's `except Exception` before that (startup failure, no
\* worker pool) returns 1 with no result at all.
C6_ExitCodeAfterDeploy ==
  /\ pc = "done" =>
       /\ exit_code \in { << 0 >>, << 1 >> }
       /\ exit_code = << 1 >> <=>
            \E i \in 1..Len(deploy_info) : deploy_info[i].status = "error"
  /\ pc = "fatal" => (exit_code = << 1 >> /\ deploy_info = << >>)
  /\ pc \notin { "done", "fatal" } => exit_code = << >>

\* main returned 1 for a run with one "error" and one "already" result.
C6_Witness ==
  /\ pc = "done"
  /\ exit_code = << 1 >>
  /\ \E i, j \in 1..Len(deploy_info) :
       /\ deploy_info[i].status = "error"
       /\ deploy_info[j].status = "already"

\* C7: once files are being submitted to the pool, and with every thread
\* scheduled and every backend call coming back, the run ends with every
\* submitted file processed and in deploy_info, whatever fails in any file.
C7_AllFilesCompleted ==
  (pc = "submit") ~>
    (/\ pc = "done"
     /\ \A f \in Range(views) : future[f].state = "finished" /\ EntriesOf(f) # { })

\* A run ended in which f_mid failed at a statement and f_bin could not be
\* read, and both are in deploy_info.
C7_Witness ==
  /\ pc = "done"
  /\ views = << "f_mid", "f_bin" >>
  /\ failed_sql # << >>
  /\ EntriesOf("f_mid") # { }
  /\ EntriesOf("f_bin") # { }

\* process_single_view on f, run alone from start to end on `thread`, and the
\* entry deploy_views_threaded makes of it.
RECURSIVE DriveToEnd(_, _)
DriveToEnd(r, thread) ==
  IF r.kind = "call"
  THEN DriveToEnd(AfterStatement(r.info, r.last_sql, r.rest,
                                 BackendOutcome(r.sqlitem), thread, << >>), thread)
  ELSE r

SerialResult(f, thread) ==
  LET r == DriveToEnd(ProcessStart(f, thread, << >>), thread) IN
  IF r.kind = "raise" THEN SynthResult(FilePath(f), r.exc) ELSE r.info

\* What a pool of one worker produces for the files found.
SerialResults == { SerialResult(f, ThreadName(0)) : f \in Range(views) }

WithoutThread(r) == [ r EXCEPT !.thread_id = << >> ]

\* C8 as stated: a pool of one worker produces SerialResults, so the claim is
\* that a pool of as many workers as files produces that set too.
C8_SameResultsAsOneWorker ==
  (pc = "done" /\ views # << >> /\ max_workers \in { 1, Len(views) }) =>
    Range(deploy_info) = SerialResults

\* C8, amended: a pool of one worker produces SerialResults, and every pool
\* size and interleaving produces the same set of results once thread_id is
\* left out of the comparison.
C8_SameResultsButThread ==
  (pc = "done" /\ views # << >>) =>
    /\ { WithoutThread(r) : r \in Range(deploy_info) }
         = { WithoutThread(r) : r \in SerialResults }
    /\ max_workers = 1 => Range(deploy_info) = SerialResults

\* Two files were run by a pool of two and one result carries the name of the
\* second worker thread.
C8_Witness ==
  /\ pc = "done"
  /\ Len(views) = 2
  /\ max_workers = 2
  /\ \E i \in 1..Len(deploy_info) : deploy_info[i].thread_id = ThreadName(1)

\* C9: when no file matches, no statement is executed, deploy_info is empty,
\* the report artifact is written with no rows, the warning is printed and
\* main returns 0.
C9_NoFilesEmptyReport ==
  (pc = "done" /\ views = << >>) =>
    /\ \A f \in FileIds : executed[f] = << >>
    /\ deploy_info = << >>
    /\ report.written /\ report.rows = << >>
    /\ warned
    /\ exit_code = << 0 >>

\* C10: unless the session was created and USE DATABASE succeeded, the run is
\* at startup or has ended fatally: no file was looked for, submitted or
\* executed and there is no result; a fatal end returns 1; USE DATABASE is
\* issued at most once, and exactly once before any statement of a file.
C10_StartupFailureAborts ==
  /\ session # "selected" =>
       /\ pc \in { "start", "usedb", "fatal" }
       /\ views = << >> /\ ~warned
       /\ submitted = 0 /\ work_queue = << >>
       /\ deploy_info = << >> /\ ~report.written
       /\ \A f \in FileIds : executed[f] = << >> /\ future[f].state = "none"
  /\ pc = "fatal" => exit_code = << 1 >>
  /\ use_db_calls <= 1
  /\ session = "selected" => use_db_calls = 1
  /\ (\E f \in FileIds : executed[f] # << >>) =>
       (session = "selected" /\ use_db_calls = 1)

\* USE DATABASE was issued and failed: the run ended with exit code 1.
C10_Witness ==
  /\ pc = "fatal"
  /\ session = "created"
  /\ use_db_calls = 1
  /\ exit_code = << 1 >>

----------------------------------------------------------------------------
\* Some result has status "error".
HasErrorResult == \E i \in 1..Len(deploy_info) : deploy_info[i].status = "error"

\* write_deployment_report ran and its write raised.
WriteFailed == report_writes > 0 /\ ~report.written

\* The entry the as_completed loop appends for file f, from f's future.
EntryFor(f) ==
  IF future[f].exception = None
  THEN future[f].result
  ELSE [ schema |-> << "unknown" >>, view_name |-> FileStem(FilePath(f)),
         status |-> "error", exception |-> future[f].exception,
         file_path |-> FilePath(f), thread_id |-> MainThread ]

\* C11: when the write of the report has failed, the run goes on to the
\* summary instead of ending fatally, deploy_info still holds the one entry
\* collected for each file, and the exit code is the one a successful write
\* gives: 1 when some result has status "error", 0 otherwise.
C11_WriteFailureKeepsExitCode ==
  WriteFailed =>
    /\ pc \in { "summary", "done" }
    /\ Len(deploy_info) = Len(views)
    /\ \A f \in Range(views) :
         \E i \in 1..Len(deploy_info) : deploy_info[i] = EntryFor(f)
    /\ pc = "done" => exit_code = << IF HasErrorResult THEN 1 ELSE 0 >>

\* The write failed in a run without an "error" result, and the run ended
\* with exit code 0.
C11_Witness ==
  /\ pc = "done"
  /\ WriteFailed
  /\ deploy_info # << >>
  /\ ~HasErrorResult
  /\ exit_code = << 0 >>

\* What holds of the report in every state.
C12_ReportState ==
  /\ report_writes <= 1
  /\ report_writes = 1 =>
       /\ views # << >>
       /\ collected = Range(views)
       /\ Len(deploy_info) = Len(views)
       /\ \A f \in Range(views) :
            future[f].state = "finished" /\ Cardinality(EntriesOf(f)) = 1
  /\ report.written => (report_writes = 1 /\ report.rows = deploy_info)
  /\ (Returned /\ views # << >>) => report_writes = 1

FailedOf(f) ==
  { i \in 1..Len(failed_sql) : failed_sql[i].file_path = FilePath(f) }

\* The statement of f the backend got last.
LastExecuted(f) == executed[f][Len(executed[f])]

\* C13: at the end of a run every entry of failed_sql is for one file of the
\* run whose result has status "error", and its sql is the (stripped) text of
\* the statement of that file that raised, the last one the backend got; a
\* file has at most one entry, and a file whose status is "ok", "empty" or
\* "already" has none.
C13_FailedSqlOnlyForErrors ==
  pc = "done" =>
    /\ \A i \in 1..Len(failed_sql) :
         /\ Cardinality({ f \in Range(views) :
                            failed_sql[i].file_path = FilePath(f) }) = 1
         /\ \A f \in Range(views) :
              failed_sql[i].file_path = FilePath(f) =>
                /\ EntriesOf(f) # { }
                /\ \A j \in EntriesOf(f) : deploy_info[j].status = "error"
                /\ executed[f] # << >>
                /\ Raises(LastExecuted(f))
                /\ failed_sql[i].sql = Strip(LastExecuted(f))
    /\ \A f \in Range(views) :
         /\ Cardinality(FailedOf(f)) <= 1
         /\ (\E j \in EntriesOf(f) :
               deploy_info[j].status \in { "ok", "empty", "already" })
              => FailedOf(f) = { }

\* A run of two files has ended: one has status "error" and its failing
\* statement is in failed_sql, the other has status "already" and no entry.
C13_Witness ==
  /\ pc = "done"
  /\ Len(failed_sql) = 1
  /\ \E i \in 1..Len(deploy_info) :
       deploy_info[i].status = "error"
       /\ deploy_info[i].file_path = failed_sql[1].file_path
  /\ \E i \in 1..Len(deploy_info) : deploy_info[i].status = "already"

\* C14: when deploy_views_threaded has returned from a run with files, the
\* progress bar has advanced once for each file.
C14_ProgressOncePerFile ==
  (Returned /\ views # << >>) => progress_count = Len(views)

\* The detail a failure before the first statement should carry: the message
\* of the exception that was raised first.
OriginalFailure(f) ==
  IF ~FileReadable(f) THEN MsgDecode ELSE MsgInvalid(FilePath(f))

FailsBeforeStatements(f) == ~FileReadable(f) \/ ~HeaderMatch(FileText(f))

\* C15: the result of a file that cannot be read or does not start with the
\* CREATE header carries the message of that failure as its detail.
C15_OriginalMessageKept ==
  \A f \in Range(views) :
    FailsBeforeStatements(f) =>
      \A i \in EntriesOf(f) :
        deploy_info[i].exception \in { OriginalFailure(f), ReplaceNl(OriginalFailure(f)) }

\* A step of some worker thread of the pool.
WorkerStep ==
  \E w \in Workers : WorkerTake(w) \/ WorkerIdle(w) \/ StatementDone(w)

\* C16 as stated: a worker thread writes no field of the deployer but the
\* results list; in particular it leaves failed_sql alone.
C16_WorkersWriteNoOtherField ==
  [][WorkerStep => UNCHANGED << failed_sql, deploy_lock, max_workers >>]_vars

\* C16, amended: failed_sql is shared as well: worker threads append to it,
\* one entry at a time and without the lock, and nothing else writes it; a
\* worker thread writes no other field of the deployer, deploy_info and the
\* lock included.
C16_WorkersWriteOnlyFailedSql ==
  /\ [][WorkerStep => UNCHANGED << deploy_info, deploy_lock, session, max_workers >>]_vars
  /\ [][failed_sql' # failed_sql =>
          /\ WorkerStep
          /\ Len(failed_sql') = Len(failed_sql) + 1
          /\ SubSeq(failed_sql', 1, Len(failed_sql)) = failed_sql]_vars

\* One worker has appended to failed_sql while another worker is in a backend
\* call and the main thread holds no lock.
C16_Witness ==
  /\ failed_sql # << >>
  /\ \E w \in Workers : worker[w].pc = "call"
  /\ deploy_lock = None

\* What holds of the lock in every state.
C17_LockState ==
  /\ deploy_lock \in { None, MainThread }
  /\ collecting # NoFile <=> deploy_lock = MainThread
  /\ pc # "collect" => deploy_lock = None

\* C17: deploy_info changes only by an append the main thread makes while it
\* holds deploy_lock, for a future that returned as for one that raised, and
\* the step that appends releases the lock; the lock has at most one holder,
\* is held only inside the collecting loop and is free when the loop is left.
C17_AppendUnderLock ==
  /\ []C17_LockState
  /\ [][deploy_info' # deploy_info =>
          /\ deploy_lock = MainThread
          /\ deploy_lock' = None
          /\ Len(deploy_info') = Len(deploy_info) + 1
          /\ SubSeq(deploy_info', 1, Len(deploy_info)) = deploy_info]_vars

\* The main thread holds the lock to append the entry of a future that
\* raised, after it has appended the result of one that returned.
C17_Witness ==
  /\ deploy_lock = MainThread
  /\ collecting # NoFile
  /\ future[collecting].exception # None
  /\ \E i \in 1..Len(deploy_info) : deploy_info[i].thread_id # MainThread

\* C18: the thread_id of every entry of deploy_info is the name of a worker
\* thread of the pool, never the name of the main thread.
C18_ThreadIdIsWorker ==
  \A i \in 1..Len(deploy_info) :
    /\ deploy_info[i].thread_id # MainThread
    /\ \E w \in Workers : deploy_info[i].thread_id = ThreadName(w)

\* C19: every entry of deploy_info has one of the four statuses, and its
\* exception is set exactly when the status is "error" or "already".
C19_DetailIffErrorOrAlready ==
  \A i \in 1..Len(deploy_info) :
    /\ deploy_info[i].status \in { "ok", "empty", "already", "error" }
    /\ deploy_info[i].exception # None
         <=> deploy_info[i].status \in { "error", "already" }

\* The report of a finished run holds an "already" result with its detail and
\* an "ok" result without one.
C19_Witness ==
  /\ pc = "done"
  /\ \E i \in 1..Len(deploy_info) :
       deploy_info[i].status = "already" /\ deploy_info[i].exception # None
  /\ \E i \in 1..Len(deploy_info) :
       deploy_info[i].status = "ok" /\ deploy_info[i].exception = None

\* The workers that are processing a file.
Busy == { w \in Workers : worker[w].pc = "call" }

\* How often f is in the work queue.
Queued(f) == Cardinality({ i \in 1..Len(work_queue) : work_queue[i] = f })

\* C20: the pool has at most max_workers threads, so at most max_workers
\* files are being processed and at most max_workers backend calls are in
\* flight; no two busy workers have the same file, and a submitted file is
\* either queued once, or with one worker, or finished, so no file is given
\* to a second worker.
C20_AtMostNAtOnce ==
  /\ num_threads <= max_workers
  /\ \A w \in Workers : worker[w].pc # "unborn" => w < max_workers
  /\ Cardinality(Busy) <= max_workers
  /\ Cardinality({ f \in FileIds : future[f].state = "running" }) <= max_workers
  /\ \A w \in Busy : worker[w].file \in Range(views)
  /\ \A w \in Workers \ Busy : worker[w].file = NoFile
  /\ \A v, w \in Busy : worker[v].file = worker[w].file => v = w
  /\ \A f \in FileIds :
       /\ future[f].state = "none" => (Queued(f) = 0 /\ InFlight(f) = { })
       /\ future[f].state = "pending" => (Queued(f) = 1 /\ InFlight(f) = { })
       /\ future[f].state = "running" =>
            (Queued(f) = 0 /\ Cardinality(InFlight(f)) = 1)
       /\ future[f].state = "finished" => (Queued(f) = 0 /\ InFlight(f) = { })

\* A pool of two workers has both of them in a backend call, each for its own
\* file.
C20_Witness ==
  /\ max_workers = 2
  /\ Cardinality(Busy) = 2
  /\ \E v, w \in Busy : worker[v].file # worker[w].file

====
